---- MODULE Spec2Model ----
(***************************************************************************)
(* k8s-tew: the local process supervisor (servers.Servers) and the         *)
(* deployment command runner (deployment.Deployment).                      *)
(*                                                                         *)
(* One process of the program either supervises the local servers          *)
(* (Servers.Run) or deploys to the nodes (Deployment.Deploy); `mode` says  *)
(* which.  Servers.Run is two goroutines: the main flow (extract, build    *)
(* the server list, start the servers, wait for a signal, deferred stop)   *)
(* and the command goroutine launched at line 187.  They share the plain   *)
(* field servers.stop; its reads and writes are modelled as atomic steps   *)
(* that interleave freely, so that a read concurrent with the write sees   *)
(* either value.                                                           *)
(*                                                                         *)
(* SpecBuild follows Servers.Run from its call to the launch of the        *)
(* goroutine with the configuration of the server list kept in the state.  *)
(* SpecVIP is the cluster's view of one election: the VIPManagers that     *)
(* Servers.addVIPManager creates on the nodes of the node table.  The      *)
(* VIPManager itself and package config are not among the sources; their   *)
(* behaviour follows the written specification of the program.             *)
(***************************************************************************)
EXTENDS Integers, Sequences, FiniteSets, TLC

\* Bounds of the model.
MaxServers == 1
MaxCommands == 2
MaxRetries == 2
MaxNodes == 2
MaxServerConfigs == 2

VARIABLES
    mode,            \* "run": Servers.Run, "deploy": Deployment.Deploy
    commandRetries,  \* Run's parameter / Deployment.commandRetries
    commands,        \* config.Config.Commands
    buildConfig,     \* config.Config.Servers, the node table, the node name
                     \* and the virtual IP settings, when they are recorded
    servers,         \* Servers.servers
    stop,            \* Servers.stop
    mainPc,          \* position of Servers.Run's main flow
    runResult,       \* what Servers.Run returned
    extractError,    \* the extraction callback reported an I/O error
    startCalls,      \* servers whose Start was called, in call order
    startFailed,     \* the last Start call returned an error
    stopCalls,       \* servers whose Stop was called, in call order
    killCalls,       \* calls of utils.KillProcessChildren
    signal,          \* a termination signal was received
    exited,          \* log.Fatal ended the process (os.Exit(1))
    progress,        \* calls of utils.IncreaseProgressStep
    cmdPc,           \* position of the command goroutine
    cmdIndex,        \* commands the goroutine's loop has left behind
    retries,         \* runCommand's loop counter
    error,           \* runCommand's local error
    attempts,        \* calls of utils.RunCommand in this runCommand
    shelled,         \* commands utils.RunCommand was called for
    rendered,        \* commands whose template was applied
    outcome,         \* per command: how its processing ended
    stopAt,          \* when stop became true: the command runCommand was
                     \* retrying (0: none), the iterations it had entered,
                     \* the attempts it had begun, and the first command
                     \* the loop had not yet taken
    afterStop,       \* attempts in flight when stop became true, or begun
                     \* after it
    nodes,           \* Deployment: number of nodes (the sorted node keys)
    skipSetup,       \* Deployment.skipSetup
    pullImages,      \* Deployment.pullImages
    bootCommands,    \* config.Config.Commands as Deployment sees them
    deployPc,        \* position of Deployment.Deploy
    nodeIndex,       \* nodes the current loop over the nodes has left behind
    deployResult,    \* what Deployment.Deploy returned
    dIndex,          \* commands runBoostrapperCommands has left behind
    dRetries,        \* Deployment.runCommand's loop counter
    dError,          \* Deployment.runCommand's local error
    dAttempts,       \* calls of utils.RunCommand in this runCommand
    dOutcome,        \* per command: how its processing ended
    deployLog,       \* the steps Deploy has begun, in the order of the calls
    members,         \* the nodes whose Run created a VIPManager for the election
    election,        \* the name of the election the managers campaign in
    vipLife,         \* per manager: "new", "running" (Start called) or "stopped"
    vipState,        \* per manager: "Follower", "Candidate" or "Leader"
    vipBound,        \* per manager: the virtual IP is on its node's interface
    connected,       \* per manager: it reaches the consensus backend
    holder,          \* the leader of the election as the consensus backend has it
    formerLeader     \* the manager that last lost the leadership

cfgVars == <<mode, commandRetries, commands, buildConfig>>
mainVars == <<servers, mainPc, runResult, extractError, startCalls,
              startFailed, stopCalls, killCalls, signal>>
cmdVars == <<cmdPc, cmdIndex, retries, error, attempts, shelled, rendered,
             outcome>>
runVars == <<mainVars, cmdVars, stop, exited, stopAt, afterStop>>
deployCfg == <<nodes, skipSetup, pullImages, bootCommands>>
deployVars == <<deployLog, deployPc, nodeIndex, deployResult, dIndex, dRetries, dError,
                dAttempts, dOutcome>>
vipVars == <<members, election, vipLife, vipState, vipBound, connected, holder,
             formerLeader>>
vars == <<cfgVars, runVars, progress, deployCfg, deployVars, vipVars>>

----------------------------------------------------------------------------
\* Values

SeqsUpTo(S, n) == UNION {[1..k -> S] : k \in 0..n}

\* error values: nil, the error of ApplyTemplate, of NewServerWrapper, of the
\* k-th server's Start, of the k-th attempt of utils.RunCommand
Nil == [kind |-> "nil", attempt |-> 0]
TemplateError == [kind |-> "template", attempt |-> 0]
WrapperError == [kind |-> "wrapper", attempt |-> 0]
StartError(k) == [kind |-> "start", attempt |-> k]
ShellError(k) == [kind |-> "shell", attempt |-> k]

\* A config.Command as the supervisor sees it: the result of
\* config.CompareLabels(node.Labels, command.Labels) and of
\* utils.HasOS(command.OS).
Command == [match : BOOLEAN, os : BOOLEAN]

\* A config.ServerConfig as Run sees it: Enabled and the result of
\* config.CompareLabels(node.Labels, serverConfig.Labels).
ServerConfig == [enabled : BOOLEAN, match : BOOLEAN]

\* The inputs of one addVIPManager call: enabled (node.IsController() or
\* node.IsWorker()), the virtual IP and its interface ("" when not configured).
VIPInput == [enabled : BOOLEAN, virtualIP : {"", "10.0.0.100"},
             virtualIPInterface : {"", "eth0"}]

\* The role labels the VIP managers look at.
NODE_CONTROLLER == "controller"

\* A second addVIPManager call that names the controller role again.
NODE_WORKER_Repeated == NODE_CONTROLLER

NODE_WORKER == "worker"

\* The names of the node table, and the node the process runs on.
NodeNames == {"node1", "node2"}
ThisNode == "node1"

\* config.Config.Nodes as addVIPManager sees it: the role labels of each
\* node; the table holds the node the process runs on.
NodeTable ==
    UNION {[names -> SUBSET {NODE_CONTROLLER, NODE_WORKER}] :
              names \in {S \in SUBSET NodeNames : ThisNode \in S}}

\* The part of the configuration the server list is built from, recorded.
BuildConfig ==
    [recorded : {TRUE},
     serverConfigs : SeqsUpTo(ServerConfig, MaxServerConfigs),
     nodeTable : NodeTable,
     name : {ThisNode},
     controllerVirtualIP : {"", "10.0.0.100"},
     controllerVirtualIPInterface : {"", "eth0"},
     workerVirtualIP : {"", "10.0.0.200"},
     workerVirtualIPInterface : {"", "eth1"}]

\* The configuration is drawn when Run reads it and is not kept.
NotRecorded == [recorded |-> FALSE]

\* The entries of Servers.servers: a ServerWrapper made from the index-th
\* ServerConfig, or the VIPManager of a role.
ServerWrapper(index) == [kind |-> "wrapper", index |-> index, role |-> ""]
VIPManager(nodeRole) == [kind |-> "vip", index |-> 0, role |-> nodeRole]

\* A constructor that hands out a supervisor already told to stop.
NewServers_Stopped == [servers |-> <<>>, stop |-> TRUE]

\* NewServers: no server yet, the stop flag is false.
NewServers == [servers |-> <<>>, stop |-> FALSE]

----------------------------------------------------------------------------
\* Servers: construction of the server list (Run, lines 140-161)

\* An add that puts the new server in front of the list.
add_Prepend(list, server) == <<server>> \o list

\* Servers.add
add(list, server) == Append(list, server)

\* An "Add servers" loop that looks at Enabled only.
ServerSkipped_EnabledOnly(serverConfig) == ~serverConfig.enabled

\* The two `continue`s of the "Add servers" loop.
ServerSkipped(serverConfig) ==
    \/ ~serverConfig.enabled
    \/ ~serverConfig.match

\* The list after the "Add servers" loop has handled the first k configs.
RECURSIVE AddedServers(_, _)
AddedServers(configs, k) ==
    IF k = 0 THEN <<>>
    ELSE IF ServerSkipped(configs[k]) THEN AddedServers(configs, k - 1)
    ELSE add(AddedServers(configs, k - 1), ServerWrapper(k))

\* An addVIPManager that does not look at the interface.
addVIPManager_NoInterfaceCheck(list, in, nodeRole) ==
    IF ~in.enabled THEN list
    ELSE IF in.virtualIP = "" THEN list
    ELSE add(list, VIPManager(nodeRole))

\* Servers.addVIPManager: returns early unless enabled and the virtual IP and
\* its interface are set, else appends a VIPManager for the role.
addVIPManager(list, in, nodeRole) ==
    IF ~in.enabled THEN list
    ELSE IF in.virtualIP = "" THEN list
    ELSE IF in.virtualIPInterface = "" THEN list
    ELSE add(list, VIPManager(nodeRole))

\* Labels.HasLabels: every required label is among the node's labels.
HasLabels(labels, required) == required \subseteq labels

\* Node.IsController and Node.IsWorker.
IsController(labels) == HasLabels(labels, {NODE_CONTROLLER})
IsWorker(labels) == HasLabels(labels, {NODE_WORKER})

\* addVIPManager, lines 81-89: the keys of the peer map, the nodes of the
\* table that carry the role label (the values, "ip:port", are left out).
Peers(nodeTable, nodeRole) ==
    {nodeName \in DOMAIN nodeTable : HasLabels(nodeTable[nodeName], {nodeRole})}

\* Run, lines 160 and 161: the arguments of the two addVIPManager calls.
ControllerInput(config) ==
    [enabled |-> IsController(config.nodeTable[config.name]),
     virtualIP |-> config.controllerVirtualIP,
     virtualIPInterface |-> config.controllerVirtualIPInterface]
WorkerInput(config) ==
    [enabled |-> IsWorker(config.nodeTable[config.name]),
     virtualIP |-> config.workerVirtualIP,
     virtualIPInterface |-> config.workerVirtualIPInterface]

\* A Steps that counts the servers of the supervisor's list.
Steps_ListedServers == Len(servers) + Len(commands) + 1

\* Servers.Steps
Steps == Len(buildConfig.serverConfigs) + Len(commands) + 1

----------------------------------------------------------------------------
\* Servers.Run: the main flow

\* Servers.extractEmbeddedFiles: the value of utils.GetEmbeddedFiles is
\* dropped and nil is returned, whatever the callback reported.
extractEmbeddedFiles(ioError) == Nil

\* Run, lines 133-135.
Extract ==
    /\ mode = "run" /\ ~exited /\ mainPc = "extract"
    /\ \E ioError \in BOOLEAN :
        /\ extractError' = ioError
        /\ IF extractEmbeddedFiles(ioError) # Nil
           THEN /\ mainPc' = "returned"
                /\ runResult' = extractEmbeddedFiles(ioError)
           ELSE /\ mainPc' = "build"
                /\ UNCHANGED runResult
    /\ UNCHANGED <<cfgVars, vipVars, deployCfg, deployVars, cmdVars, servers, startCalls, startFailed,
                   stopCalls, killCalls, signal, stop, exited, progress,
                   stopAt, afterStop>>

\* Run, lines 140-161: the wrapped servers in declaration order (a failing
\* NewServerWrapper returns its error), then the two VIP managers.
AddServersFrom(serverConfigs, controller, worker) ==
    \/ \E k \in 1..Len(serverConfigs) :
        /\ ~ServerSkipped(serverConfigs[k])
        /\ servers' = AddedServers(serverConfigs, k - 1)
        /\ mainPc' = "returned"
        /\ runResult' = WrapperError
    \/ /\ servers' = addVIPManager(
                          addVIPManager(
                              AddedServers(serverConfigs, Len(serverConfigs)),
                              controller, NODE_CONTROLLER),
                          worker, NODE_WORKER)
       /\ mainPc' = "start"
       /\ UNCHANGED runResult

\* Run, lines 140-161, with the configuration drawn as Run reads it.
AddServers ==
    /\ mode = "run" /\ ~exited /\ mainPc = "build"
    /\ \E serverConfigs \in SeqsUpTo(ServerConfig, MaxServers),
          controller \in VIPInput, worker \in VIPInput :
        AddServersFrom(serverConfigs, controller, worker)
    /\ UNCHANGED <<cfgVars, vipVars, deployCfg, deployVars, cmdVars, extractError, startCalls, startFailed,
                   stopCalls, killCalls, signal, stop, exited, progress,
                   stopAt, afterStop>>

\* Run, lines 140-161, with the recorded configuration.
AddConfiguredServers ==
    /\ mode = "run" /\ ~exited /\ mainPc = "build"
    /\ AddServersFrom(buildConfig.serverConfigs, ControllerInput(buildConfig),
                      WorkerInput(buildConfig))
    /\ UNCHANGED <<cfgVars, vipVars, deployCfg, deployVars, cmdVars, extractError, startCalls, startFailed,
                   stopCalls, killCalls, signal, stop, exited, progress,
                   stopAt, afterStop>>

\* A Start loop that logs the error and goes on.
StartAborts_Never(startError) == FALSE

\* Run, line 165: a Start that returns an error ends Run with it.
StartAborts(startError) == startError # Nil

\* Run, lines 164-172: one iteration of the "Start servers" loop.
StartServer ==
    /\ mode = "run" /\ ~exited /\ mainPc = "start"
    /\ Len(startCalls) < Len(servers)
    /\ LET k == Len(startCalls) + 1 IN
       \E startError \in {Nil, StartError(k)} :
        /\ startCalls' = Append(startCalls, servers[k])
        /\ startFailed' = (startError # Nil)
        /\ IF StartAborts(startError)
           THEN /\ mainPc' = "returned"
                /\ runResult' = startError
                /\ UNCHANGED progress
           ELSE /\ progress' = progress + 1
                /\ UNCHANGED <<mainPc, runResult>>
    /\ UNCHANGED <<cfgVars, vipVars, deployCfg, deployVars, cmdVars, servers, extractError, stopCalls,
                   killCalls, signal, stop, exited, stopAt, afterStop>>

\* A goroutine launched without waiting for the Start loop.
StartLoopDone_Early == TRUE

\* The "Start servers" loop has run through the list.
StartLoopDone == Len(startCalls) = Len(servers)

\* A Run that does not wait on the signal channel and returns at once.
AfterLaunch_NoWait == "deferred"

\* Run, lines 214-219: behind the go statement Run subscribes to SIGINT and
\* SIGTERM and blocks on the channel.
AfterLaunch == "wait"

\* Run, lines 174-217: the loop is over; the stop of the servers is deferred,
\* the command goroutine is launched and the signals are subscribed to.
Launch ==
    /\ mode = "run" /\ ~exited /\ mainPc = "start"
    /\ StartLoopDone
    /\ mainPc' = AfterLaunch
    /\ cmdPc' = "next"
    /\ UNCHANGED <<cfgVars, vipVars, deployCfg, deployVars, servers, runResult, extractError, startCalls,
                   startFailed, stopCalls, killCalls, signal, cmdIndex,
                   retries, error, attempts, shelled, rendered, outcome, stop,
                   exited, progress, stopAt, afterStop>>

\* The goroutine is inside runCommand's retry loop.
Retrying == cmdPc \in {"loop", "call", "running", "sleep"}

\* The iterations of the retry loop whose top (lines 42-45) has been passed.
Entered == IF cmdPc = "loop" THEN retries ELSE retries + 1

\* Run, lines 219-223: SIGINT or SIGTERM arrives, the stop flag is set and
\* Run returns nil, which starts the deferred function.
Signal ==
    /\ mode = "run" /\ ~exited /\ mainPc = "wait"
    /\ signal' = TRUE
    /\ stop' = TRUE
    /\ stopAt' = IF Retrying
                 THEN [index |-> cmdIndex + 1, entered |-> Entered,
                       attempts |-> attempts, next |-> cmdIndex + 2]
                 ELSE [index |-> 0, entered |-> 0, attempts |-> 0,
                       next |-> cmdIndex + 1]
    /\ afterStop' = IF cmdPc = "running" THEN 1 ELSE 0
    /\ mainPc' = "deferred"
    /\ UNCHANGED <<cfgVars, vipVars, deployCfg, deployVars, cmdVars, servers, runResult, extractError,
                   startCalls, startFailed, stopCalls, killCalls, exited,
                   progress>>

\* A deferred loop that walks the list from its end.
StopLoopServer_Reversed(list, k) == list[Len(list) + 1 - k]

\* Run, line 176: the server of the k-th iteration of `range servers.servers`.
StopLoopServer(list, k) == list[k]

\* Run, lines 176-180: one iteration of the deferred loop.
StopServer ==
    /\ mode = "run" /\ ~exited /\ mainPc = "deferred"
    /\ Len(stopCalls) < Len(servers)
    /\ stopCalls' = Append(stopCalls, StopLoopServer(servers, Len(stopCalls) + 1))
    /\ UNCHANGED <<cfgVars, vipVars, deployCfg, deployVars, cmdVars, servers, mainPc, runResult, extractError,
                   startCalls, startFailed, killCalls, signal, stop, exited,
                   progress, stopAt, afterStop>>

\* A killer called from inside the deferred loop.
StopLoopDone_Early == TRUE

\* The deferred loop has run through the list.
StopLoopDone == Len(stopCalls) = Len(servers)

\* Run, lines 182-184: the deferred function ends with the process-tree
\* killer, and Run has returned nil.
KillChildren ==
    /\ mode = "run" /\ ~exited /\ mainPc = "deferred"
    /\ StopLoopDone
    /\ killCalls' = killCalls + 1
    /\ mainPc' = "returned"
    /\ runResult' = Nil
    /\ UNCHANGED <<cfgVars, vipVars, deployCfg, deployVars, cmdVars, servers, extractError, startCalls,
                   startFailed, stopCalls, signal, stop, exited, progress,
                   stopAt, afterStop>>

----------------------------------------------------------------------------
\* Servers.Run: the command goroutine (lines 187-212) and Servers.runCommand

Pending == [state |-> "pending", error |-> Nil]
Skipped == [state |-> "skipped", error |-> Nil]
Returned(e) == [state |-> "returned", error |-> e]

\* A loop that leaves out the OS check of line 196.
CommandSkipped_LabelsOnly(command) == ~command.match

\* Run, lines 190 and 196: the command is passed over.
CommandSkipped(command) ==
    \/ ~command.match
    \/ ~command.os

\* A loop that logs a failed command and goes on to the next.
CommandFailureFatal_Never(e) == FALSE

\* A loop for which only a template error is fatal.
CommandFailureFatal_TemplateOnly(e) == e = TemplateError

\* Run, line 202: an error of runCommand goes to log.Fatal.
CommandFailureFatal(e) == e # Nil

\* A retry loop that runs once more than the budget.
RetryLoopContinues_OffByOne(r, n, s) == r <= n /\ ~s

\* A retry loop that does not read the stop flag.
RetryLoopContinues_NoStop(r, n, s) == r < n

\* A retry loop that makes its first attempt whatever the budget.
RetryLoopContinues_FirstAlways(r, n, s) == (r = 0 \/ r < n) /\ ~s

\* runCommand, lines 42-45: the loop goes into another iteration.
RetryLoopContinues(r, n, s) == r < n /\ ~s

\* A retry loop that sleeps and goes on behind a successful attempt too.
AttemptEndsLoop_Never(e) == FALSE

\* runCommand, line 48: an attempt without an error breaks out of the loop.
AttemptEndsLoop(e) == e = Nil

\* Lines 55-61 and 202-206: runCommand returns e for command c; with an error
\* log.Fatal ends the process, else the step is counted and the loop goes on.
RunCommandReturns(c, e) ==
    /\ outcome' = [outcome EXCEPT ![c] = Returned(e)]
    /\ IF CommandFailureFatal(e)
       THEN /\ exited' = TRUE
            /\ cmdPc' = "fatal"
            /\ UNCHANGED <<progress, cmdIndex>>
       ELSE /\ progress' = progress + 1
            /\ cmdIndex' = c
            /\ cmdPc' = "next"
            /\ UNCHANGED exited

\* Lines 189-202 and 35-40: the loop takes the next command, passes over it
\* or calls runCommand, which renders the template.
ProcessCommand ==
    /\ mode = "run" /\ ~exited /\ cmdPc = "next"
    /\ cmdIndex < Len(commands)
    /\ LET c == cmdIndex + 1 IN
       IF CommandSkipped(commands[c])
       THEN /\ progress' = progress + 1
            /\ outcome' = [outcome EXCEPT ![c] = Skipped]
            /\ cmdIndex' = c
            /\ UNCHANGED <<cmdPc, exited, retries, error, attempts, rendered>>
       ELSE /\ rendered' = rendered \cup {c}
            /\ attempts' = 0
            /\ \E e \in {Nil, TemplateError} :
                /\ error' = e
                /\ IF e # Nil
                   THEN /\ RunCommandReturns(c, e)
                        /\ UNCHANGED retries
                   ELSE /\ retries' = 0
                        /\ cmdPc' = "loop"
                        /\ UNCHANGED <<outcome, exited, progress, cmdIndex>>
    /\ UNCHANGED <<cfgVars, vipVars, deployCfg, deployVars, mainVars, shelled, stop, stopAt, afterStop>>

\* Lines 209-211: the commands are through.
SetupFinished ==
    /\ mode = "run" /\ ~exited /\ cmdPc = "next"
    /\ cmdIndex = Len(commands)
    /\ cmdPc' = "finished"
    /\ UNCHANGED <<cfgVars, vipVars, deployCfg, deployVars, mainVars, cmdIndex, retries, error, attempts,
                   shelled, rendered, outcome, stop, exited, progress, stopAt,
                   afterStop>>

\* Lines 42-45 and 55-61: the top of an iteration reads the counter and the
\* stop flag; when the loop is left, runCommand returns its error.
LoopCheck ==
    /\ mode = "run" /\ ~exited /\ cmdPc = "loop"
    /\ IF RetryLoopContinues(retries, commandRetries, stop)
       THEN /\ cmdPc' = "call"
            /\ UNCHANGED <<outcome, exited, progress, cmdIndex>>
       ELSE RunCommandReturns(cmdIndex + 1, error)
    /\ UNCHANGED <<cfgVars, vipVars, deployCfg, deployVars, mainVars, retries, error, attempts, shelled,
                   rendered, stop, stopAt, afterStop>>

\* Line 48: utils.RunCommand is called.
CallShell ==
    /\ mode = "run" /\ ~exited /\ cmdPc = "call"
    /\ attempts' = attempts + 1
    /\ shelled' = shelled \cup {cmdIndex + 1}
    /\ afterStop' = IF stop THEN afterStop + 1 ELSE afterStop
    /\ cmdPc' = "running"
    /\ UNCHANGED <<cfgVars, vipVars, deployCfg, deployVars, mainVars, cmdIndex, retries, error, rendered,
                   outcome, stop, exited, progress, stopAt>>

\* Lines 48-52: utils.RunCommand returns; nil breaks out of the loop, an
\* error leads to the sleep.
ShellReturns ==
    /\ mode = "run" /\ ~exited /\ cmdPc = "running"
    /\ \E e \in {Nil, ShellError(attempts)} :
        /\ error' = e
        /\ IF AttemptEndsLoop(e)
           THEN RunCommandReturns(cmdIndex + 1, e)
           ELSE /\ cmdPc' = "sleep"
                /\ UNCHANGED <<outcome, exited, progress, cmdIndex>>
    /\ UNCHANGED <<cfgVars, vipVars, deployCfg, deployVars, mainVars, retries, attempts, shelled, rendered,
                   stop, stopAt, afterStop>>

\* Lines 52 and 42: the sleep is over and the counter goes up.
Wake ==
    /\ mode = "run" /\ ~exited /\ cmdPc = "sleep"
    /\ retries' = retries + 1
    /\ cmdPc' = "loop"
    /\ UNCHANGED <<cfgVars, vipVars, deployCfg, deployVars, mainVars, cmdIndex, error, attempts, shelled,
                   rendered, outcome, stop, exited, progress, stopAt,
                   afterStop>>

----------------------------------------------------------------------------
\* Deployment.Deploy (deployment.go)

\* A config.Command as runBoostrapperCommands sees it: the result of
\* command.Labels.HasLabels({NODE_BOOTSTRAPPER}) and of
\* command.Features.HasFeatures(skipSetupFeatures).
BootCommand == [bootstrapper : BOOLEAN, skipFeature : BOOLEAN]

UploadError == [kind |-> "upload", attempt |-> 0]
TaintError == [kind |-> "taint", attempt |-> 0]
PullError == [kind |-> "pull", attempt |-> 0]

\* len(deployment.images), lines 71-111
NumImages == 40

\* Deployment.Steps, lines 124-136: the part that counts the setup.
SetupSteps ==
    IF skipSetup THEN 0
    ELSE nodes + (IF pullImages THEN nodes * NumImages ELSE 0)
               + nodes * Len(bootCommands)

\* A step of Deploy: the phase and the position of the node in the sorted
\* node keys, or of the command in config.Config.Commands.
Step(phase, index) == [phase |-> phase, index |-> index]

\* Deploy, lines 145-153: one node's upload; an error ends Deploy.
UploadFiles ==
    /\ mode = "deploy" /\ deployPc = "upload"
    /\ nodeIndex < nodes
    /\ deployLog' = Append(deployLog, Step("upload", nodeIndex + 1))
    /\ \E e \in {Nil, UploadError} :
        IF e # Nil
        THEN /\ deployResult' = e
             /\ deployPc' = "returned"
             /\ UNCHANGED nodeIndex
        ELSE /\ nodeIndex' = nodeIndex + 1
             /\ UNCHANGED <<deployResult, deployPc>>
    /\ UNCHANGED <<cfgVars, vipVars, runVars, progress, deployCfg, dIndex, dRetries,
                   dError, dAttempts, dOutcome>>

\* Deploy, line 155, and setup, lines 284-288.
Setup ==
    /\ mode = "deploy" /\ deployPc = "upload"
    /\ nodeIndex = nodes
    /\ IF skipSetup
       THEN /\ deployResult' = Nil
            /\ deployPc' = "returned"
       ELSE /\ deployPc' = "taints"
            /\ UNCHANGED deployResult
    /\ nodeIndex' = 0
    /\ UNCHANGED <<cfgVars, vipVars, runVars, progress, deployCfg, deployLog, dIndex, dRetries,
                   dError, dAttempts, dOutcome>>

\* runConfigureTaints, lines 188-211: one node.  The retry loop ends with nil
\* when an attempt succeeds or when there is no attempt; the step is counted
\* before the error is looked at.
ConfigureTaint ==
    /\ mode = "deploy" /\ deployPc = "taints"
    /\ nodeIndex < nodes
    /\ deployLog' = Append(deployLog, Step("taint", nodeIndex + 1))
    /\ \E e \in {Nil} \cup (IF commandRetries > 0 THEN {TaintError} ELSE {}) :
        /\ progress' = progress + 1
        /\ IF e # Nil
           THEN /\ deployResult' = e
                /\ deployPc' = "returned"
                /\ UNCHANGED nodeIndex
           ELSE /\ nodeIndex' = nodeIndex + 1
                /\ UNCHANGED <<deployResult, deployPc>>
    /\ UNCHANGED <<cfgVars, vipVars, runVars, deployCfg, dIndex, dRetries, dError,
                   dAttempts, dOutcome>>

\* A setup that goes from the taints to the commands whatever pullImages is.
AfterTaints_NoImages(pull) == "commands"

\* setup, lines 290-296, and runPullImages, lines 217-219: behind the taints
\* come the image pulls, which return at once when pullImages is unset, and
\* then the commands.
AfterTaints(pull) == IF pull THEN "images" ELSE "commands"

\* runConfigureTaints returns nil; runPullImages, lines 217-219.
TaintsDone ==
    /\ mode = "deploy" /\ deployPc = "taints"
    /\ nodeIndex = nodes
    /\ deployPc' = AfterTaints(pullImages)
    /\ nodeIndex' = 0
    /\ UNCHANGED <<cfgVars, vipVars, runVars, progress, deployCfg, deployLog, deployResult, dIndex,
                   dRetries, dError, dAttempts, dOutcome>>

\* runPullImages, lines 223-247: one node's tasks, one per image, each
\* counting its step; with errors the first is returned.
PullImages ==
    /\ mode = "deploy" /\ deployPc = "images"
    /\ nodeIndex < nodes
    /\ deployLog' = Append(deployLog, Step("pull", nodeIndex + 1))
    /\ \E e \in {Nil, PullError} :
        IF e # Nil
        THEN /\ \E ran \in 1..NumImages : progress' = progress + ran
             /\ deployResult' = e
             /\ deployPc' = "returned"
             /\ UNCHANGED nodeIndex
        ELSE /\ progress' = progress + NumImages
             /\ nodeIndex' = nodeIndex + 1
             /\ UNCHANGED <<deployResult, deployPc>>
    /\ UNCHANGED <<cfgVars, vipVars, runVars, deployCfg, dIndex, dRetries, dError,
                   dAttempts, dOutcome>>

\* runPullImages returns nil.
ImagesDone ==
    /\ mode = "deploy" /\ deployPc = "images"
    /\ nodeIndex = nodes
    /\ deployPc' = "commands"
    /\ nodeIndex' = 0
    /\ UNCHANGED <<cfgVars, vipVars, runVars, progress, deployCfg, deployLog, deployResult, dIndex,
                   dRetries, dError, dAttempts, dOutcome>>

\* runBoostrapperCommands, lines 255 and 261: the command is passed over.
BootCommandSkipped(command) ==
    \/ ~command.bootstrapper
    \/ command.skipFeature

\* Deployment.runCommand, line 165: an attempt without an error breaks out
\* of the loop.
DeployAttemptEndsLoop(e) == e = Nil

\* Deployment.runCommand, line 163: the loop goes into another iteration.
DeployRetryLoopContinues(r, n) == r < n

\* Lines 174-180 and 272-276: runCommand returns e for command c; an error
\* ends Deploy, else the step is counted and the loop goes on.
DeployRunCommandReturns(c, e) ==
    /\ dOutcome' = [dOutcome EXCEPT ![c] = Returned(e)]
    /\ IF e # Nil
       THEN /\ deployResult' = e
            /\ deployPc' = "returned"
            /\ UNCHANGED <<progress, dIndex>>
       ELSE /\ progress' = progress + 1
            /\ dIndex' = c
            /\ deployPc' = "commands"
            /\ UNCHANGED deployResult

\* runBoostrapperCommands, lines 254-272: the loop takes the next command,
\* passes over it, or renders its template and calls runCommand.
BootstrapCommand ==
    /\ mode = "deploy" /\ deployPc = "commands"
    /\ dIndex < Len(bootCommands)
    /\ LET c == dIndex + 1 IN
       IF BootCommandSkipped(bootCommands[c])
       THEN /\ progress' = progress + 1
            /\ dOutcome' = [dOutcome EXCEPT ![c] = Skipped]
            /\ dIndex' = c
            /\ UNCHANGED <<deployPc, deployResult, dRetries, dError, dAttempts,
                           deployLog>>
       ELSE /\ deployLog' = Append(deployLog, Step("command", c))
            /\ \E e \in {Nil, TemplateError} :
                 IF e # Nil
                 THEN /\ deployResult' = e
                      /\ deployPc' = "returned"
                      /\ UNCHANGED <<progress, dOutcome, dIndex, dRetries, dError,
                                     dAttempts>>
                 ELSE /\ dRetries' = 0
                      /\ dError' = Nil
                      /\ dAttempts' = 0
                      /\ deployPc' = "loop"
                      /\ UNCHANGED <<progress, dOutcome, dIndex, deployResult>>
    /\ UNCHANGED <<cfgVars, vipVars, runVars, deployCfg, nodeIndex>>

\* runBoostrapperCommands returns nil, and so do setup and Deploy.
CommandsDone ==
    /\ mode = "deploy" /\ deployPc = "commands"
    /\ dIndex = Len(bootCommands)
    /\ deployResult' = Nil
    /\ deployPc' = "returned"
    /\ UNCHANGED <<cfgVars, vipVars, runVars, progress, deployCfg, deployLog, nodeIndex, dIndex,
                   dRetries, dError, dAttempts, dOutcome>>

\* Deployment.runCommand, lines 163-165 and 174-180: the top of an iteration
\* calls utils.RunCommand; when the loop is left, runCommand returns its error.
DeployLoopCheck ==
    /\ mode = "deploy" /\ deployPc = "loop"
    /\ IF DeployRetryLoopContinues(dRetries, commandRetries)
       THEN /\ dAttempts' = dAttempts + 1
            /\ deployPc' = "running"
            /\ UNCHANGED <<dOutcome, deployResult, progress, dIndex>>
       ELSE /\ DeployRunCommandReturns(dIndex + 1, dError)
            /\ UNCHANGED dAttempts
    /\ UNCHANGED <<cfgVars, vipVars, runVars, deployCfg, deployLog, nodeIndex, dRetries, dError>>

\* Lines 165-171: utils.RunCommand returns; nil breaks out of the loop, an
\* error leads to the sleep.
DeployShellReturns ==
    /\ mode = "deploy" /\ deployPc = "running"
    /\ \E e \in {Nil, ShellError(dAttempts)} :
        /\ dError' = e
        /\ IF DeployAttemptEndsLoop(e)
           THEN DeployRunCommandReturns(dIndex + 1, e)
           ELSE /\ deployPc' = "sleep"
                /\ UNCHANGED <<dOutcome, deployResult, progress, dIndex>>
    /\ UNCHANGED <<cfgVars, vipVars, runVars, deployCfg, deployLog, nodeIndex, dRetries, dAttempts>>

\* Lines 171 and 163: the sleep is over and the counter goes up.
DeployWake ==
    /\ mode = "deploy" /\ deployPc = "sleep"
    /\ dRetries' = dRetries + 1
    /\ deployPc' = "loop"
    /\ UNCHANGED <<cfgVars, vipVars, runVars, progress, deployCfg, deployLog, nodeIndex,
                   deployResult, dIndex, dError, dAttempts, dOutcome>>

----------------------------------------------------------------------------
\* VIPManager: the managers of one election, on the nodes of the node table

ELECTION_NAMESPACE == "/k8s-tew"
ELECTION_CONTROLLER == "/controller-vip-manager"
ELECTION_WORKER == "/worker-vip-manager"

\* The election a manager of the role campaigns in.
ElectionName(nodeRole) ==
    IF nodeRole = NODE_CONTROLLER
    THEN <<ELECTION_NAMESPACE, ELECTION_CONTROLLER>>
    ELSE <<ELECTION_NAMESPACE, ELECTION_WORKER>>

\* The consensus backend has no leader for the election.
NoLeader == "none"

\* Run, lines 160 and 161, on the node of the given name.
RoleInput(config, nodeName, nodeRole) ==
    IF nodeRole = NODE_CONTROLLER
    THEN ControllerInput([config EXCEPT !.name = nodeName])
    ELSE WorkerInput([config EXCEPT !.name = nodeName])

\* The nodes of the table on which addVIPManager creates a manager of the
\* role.
Managers(config, nodeRole) ==
    {nodeName \in DOMAIN config.nodeTable :
        addVIPManager(<<>>, RoleInput(config, nodeName, nodeRole), nodeRole)
            = <<VIPManager(nodeRole)>>}

\* A backend that grants the leadership whoever holds it.
LeadershipFree_Always(leader) == TRUE

\* The consensus primitive grants the leadership of an election only while
\* nobody holds it.
LeadershipFree(leader) == leader = NoLeader

\* A backend that keeps a leader whose session is gone.
HolderAfterLoss_Kept(leader, n) == leader

\* The leader of the election once manager n has lost its session or has
\* resigned: nobody, if it was n.
HolderAfterLoss(leader, n) == IF leader = n THEN NoLeader ELSE leader

\* The local state of manager n.
Manager(n) == [life |-> vipLife[n], state |-> vipState[n], bound |-> vipBound[n]]

\* A manager that falls back to Follower and leaves the virtual IP bound.
AfterSessionLoss_KeepsIP(m) == [m EXCEPT !.state = "Follower"]

\* The manager behind the loss of its session: Follower, the virtual IP
\* removed, the campaign loop still running.
AfterSessionLoss(m) == [m EXCEPT !.state = "Follower", !.bound = FALSE]

\* A Stop that does something only if the manager is the leader.
AfterStop_LeaderOnly(m) ==
    IF m.state = "Leader"
    THEN [life |-> "stopped", state |-> "Follower", bound |-> FALSE]
    ELSE m

\* The manager behind Stop: the campaign loop cancelled, not the leader,
\* the virtual IP removed.
AfterStop(m) == [life |-> "stopped", state |-> "Follower", bound |-> FALSE]

\* VIPManager.Start: the campaign loop is launched; Start does not wait for
\* the leadership.
VIPStart(n) ==
    /\ mode = "run"
    /\ vipLife[n] = "new"
    /\ vipLife' = [vipLife EXCEPT ![n] = "running"]
    /\ UNCHANGED <<cfgVars, runVars, progress, deployCfg, deployVars, members,
                   election, vipState, vipBound, connected, holder,
                   formerLeader>>

\* The campaign loop enters the election.
VIPCampaign(n) ==
    /\ mode = "run"
    /\ vipLife[n] = "running" /\ connected[n]
    /\ vipState[n] = "Follower"
    /\ vipState' = [vipState EXCEPT ![n] = "Candidate"]
    /\ UNCHANGED <<cfgVars, runVars, progress, deployCfg, deployVars, members,
                   election, vipLife, vipBound, connected, holder,
                   formerLeader>>

\* The candidate wins the election: it is Leader and binds the virtual IP
\* to its interface.
VIPWin(n) ==
    /\ mode = "run"
    /\ vipLife[n] = "running" /\ connected[n]
    /\ vipState[n] = "Candidate"
    /\ LeadershipFree(holder)
    /\ holder' = n
    /\ vipState' = [vipState EXCEPT ![n] = "Leader"]
    /\ vipBound' = [vipBound EXCEPT ![n] = TRUE]
    /\ UNCHANGED <<cfgVars, runVars, progress, deployCfg, deployVars, members,
                   election, vipLife, connected, formerLeader>>

\* The manager loses its session with the consensus backend (expiry or
\* partition): it is Follower again, removes the virtual IP, and no longer
\* holds the leadership.
VIPSessionLost(n) ==
    /\ mode = "run"
    /\ vipLife[n] = "running" /\ connected[n]
    /\ connected' = [connected EXCEPT ![n] = FALSE]
    /\ vipState' = [vipState EXCEPT ![n] = AfterSessionLoss(Manager(n)).state]
    /\ vipBound' = [vipBound EXCEPT ![n] = AfterSessionLoss(Manager(n)).bound]
    /\ holder' = HolderAfterLoss(holder, n)
    /\ formerLeader' = IF holder = n THEN n ELSE formerLeader
    /\ UNCHANGED <<cfgVars, runVars, progress, deployCfg, deployVars, members,
                   election, vipLife>>

\* The campaign loop retries and reaches the consensus backend again.
VIPReconnect(n) ==
    /\ mode = "run"
    /\ vipLife[n] = "running" /\ ~connected[n]
    /\ connected' = [connected EXCEPT ![n] = TRUE]
    /\ UNCHANGED <<cfgVars, runVars, progress, deployCfg, deployVars, members,
                   election, vipLife, vipState, vipBound, holder,
                   formerLeader>>

\* VIPManager.Stop, in any state and any number of times: the campaign loop
\* is cancelled, the leadership resigned if held, the virtual IP removed.
VIPStop(n) ==
    /\ mode = "run"
    /\ vipLife' = [vipLife EXCEPT ![n] = AfterStop(Manager(n)).life]
    /\ vipState' = [vipState EXCEPT ![n] = AfterStop(Manager(n)).state]
    /\ vipBound' = [vipBound EXCEPT ![n] = AfterStop(Manager(n)).bound]
    /\ holder' = HolderAfterLoss(holder, n)
    /\ formerLeader' = IF holder = n THEN n ELSE formerLeader
    /\ UNCHANGED <<cfgVars, runVars, progress, deployCfg, deployVars, members,
                   election, connected>>

----------------------------------------------------------------------------
\* The specification

\* The state behind NewServers (lines 26-28) and NewDeployment, before Run
\* or Deploy has taken a step.
InitState ==
    /\ deployPc = "upload"
    /\ nodeIndex = 0
    /\ deployResult = Nil
    /\ deployLog = <<>>
    /\ dIndex = 0
    /\ dRetries = 0
    /\ dError = Nil
    /\ dAttempts = 0
    /\ dOutcome = [c \in 1..Len(bootCommands) |-> Pending]
    /\ servers = NewServers.servers
    /\ stop = NewServers.stop
    /\ mainPc = "extract"
    /\ runResult = Nil
    /\ extractError = FALSE
    /\ startCalls = <<>>
    /\ startFailed = FALSE
    /\ stopCalls = <<>>
    /\ killCalls = 0
    /\ signal = FALSE
    /\ exited = FALSE
    /\ progress = 0
    /\ cmdPc = "idle"
    /\ cmdIndex = 0
    /\ retries = 0
    /\ error = Nil
    /\ attempts = 0
    /\ shelled = {}
    /\ rendered = {}
    /\ outcome = [c \in 1..Len(commands) |-> Pending]
    /\ stopAt = [index |-> 0, entered |-> 0, attempts |-> 0, next |-> 0]
    /\ afterStop = 0

\* No VIPManager of the cluster is looked at.
NoManagers ==
    /\ members = {}
    /\ election = <<>>
    /\ vipLife = <<>>
    /\ vipState = <<>>
    /\ vipBound = <<>>
    /\ connected = <<>>
    /\ holder = NoLeader
    /\ formerLeader = NoLeader

\* The configurations Run or Deploy is called with.
Init ==
    /\ mode \in {"run", "deploy"}
    /\ commandRetries \in 0..MaxRetries
    /\ IF mode = "run"
       THEN /\ commands \in SeqsUpTo(Command, MaxCommands)
            /\ nodes = 0
            /\ skipSetup = FALSE
            /\ pullImages = FALSE
            /\ bootCommands = <<>>
       ELSE /\ commands = <<>>
            /\ nodes \in 0..MaxNodes
            /\ skipSetup \in BOOLEAN
            /\ pullImages \in BOOLEAN
            /\ bootCommands \in SeqsUpTo(BootCommand, MaxCommands)
    /\ buildConfig = NotRecorded
    /\ InitState
    /\ NoManagers

\* Run called with a recorded configuration of the server list; the commands
\* are told apart by their number only.
InitBuild ==
    /\ mode = "run"
    /\ commandRetries = 0
    /\ commands \in {list \in SeqsUpTo(Command, MaxCommands) :
                        \A c \in 1..Len(list) : list[c].match /\ list[c].os}
    /\ nodes = 0
    /\ skipSetup = FALSE
    /\ pullImages = FALSE
    /\ bootCommands = <<>>
    /\ buildConfig \in BuildConfig
    /\ InitState
    /\ NoManagers

Next ==
    \/ Extract
    \/ AddServers
    \/ StartServer
    \/ Launch
    \/ Signal
    \/ StopServer
    \/ KillChildren
    \/ ProcessCommand
    \/ SetupFinished
    \/ LoopCheck
    \/ CallShell
    \/ ShellReturns
    \/ Wake
    \/ UploadFiles
    \/ Setup
    \/ ConfigureTaint
    \/ TaintsDone
    \/ PullImages
    \/ ImagesDone
    \/ BootstrapCommand
    \/ CommandsDone
    \/ DeployLoopCheck
    \/ DeployShellReturns
    \/ DeployWake

Spec == Init /\ [][Next]_vars

\* Run from its call to the launch of the command goroutine, with the
\* configuration of the server list recorded.
NextBuild ==
    \/ Extract
    \/ AddConfiguredServers
    \/ StartServer
    \/ Launch

SpecBuild == InitBuild /\ [][NextBuild]_vars

\* The managers that the nodes of a cluster create for the election of one
\* role, from the one configuration all nodes share; every manager is new,
\* a Follower without the virtual IP, and reaches the consensus backend.
InitVIP ==
    /\ mode = "run"
    /\ commandRetries = 0
    /\ commands = <<>>
    /\ nodes = 0
    /\ skipSetup = FALSE
    /\ pullImages = FALSE
    /\ bootCommands = <<>>
    /\ buildConfig \in {config \in BuildConfig : config.serverConfigs = <<>>}
    /\ InitState
    /\ \E nodeRole \in {NODE_CONTROLLER, NODE_WORKER} :
        /\ election = ElectionName(nodeRole)
        /\ members = Managers(buildConfig, nodeRole)
    /\ vipLife = [n \in members |-> "new"]
    /\ vipState = [n \in members |-> "Follower"]
    /\ vipBound = [n \in members |-> FALSE]
    /\ connected = [n \in members |-> TRUE]
    /\ holder = NoLeader
    /\ formerLeader = NoLeader

NextVIP ==
    \/ \E n \in members : VIPStart(n)
    \/ \E n \in members : VIPCampaign(n)
    \/ \E n \in members : VIPWin(n)
    \/ \E n \in members : VIPSessionLost(n)
    \/ \E n \in members : VIPReconnect(n)
    \/ \E n \in members : VIPStop(n)

SpecVIP == InitVIP /\ [][NextVIP]_vars

\* The campaign loop of a manager is a background task of its own: while it
\* can enter the election, or can win it, it does not wait forever.  Loss of
\* the session, reconnection, Start and Stop happen or not.
FairVIP ==
    \A n \in NodeNames :
        /\ WF_vars(n \in members /\ VIPCampaign(n))
        /\ WF_vars(n \in members /\ VIPWin(n))

SpecVIPFair == InitVIP /\ [][NextVIP]_vars /\ FairVIP

----------------------------------------------------------------------------
\* Properties

\* runCommand has just returned for a command: the process ended in
\* log.Fatal, or the loop is back at its head behind a command that went
\* through runCommand.  `attempts` and `error` are then that call's.
JustReturned ==
    \/ cmdPc = "fatal"
    \/ /\ cmdPc = "next"
       /\ cmdIndex >= 1
       /\ outcome[cmdIndex].state = "returned"

\* The command runCommand has just returned for.
ReturnedCommand == IF cmdPc = "fatal" THEN cmdIndex + 1 ELSE cmdIndex

\* Deployment.runCommand has just returned for a command.
DeployJustReturned ==
    \/ /\ deployPc = "returned"
       /\ dIndex < Len(bootCommands)
       /\ dOutcome[dIndex + 1].state = "returned"
    \/ /\ deployPc = "commands"
       /\ dIndex >= 1
       /\ dOutcome[dIndex].state = "returned"

\* C1: with a retry budget N >= 1, the stop flag unset and a rendered command
\* none of whose attempts succeeds, Servers.runCommand has made exactly N
\* attempts when it returns, and returns the error of the N-th; and so does
\* Deployment.runCommand, which makes Deploy return that error.
C1_AlwaysFailingTriedNTimes ==
    /\ ( /\ mode = "run"
         /\ JustReturned
         /\ commandRetries >= 1
         /\ ~stop
         /\ error # TemplateError
         /\ ~(attempts >= 1 /\ error = Nil) )
       => /\ attempts = commandRetries
          /\ error = ShellError(commandRetries)
          /\ outcome[ReturnedCommand].error = ShellError(commandRetries)
    /\ ( /\ mode = "deploy"
         /\ DeployJustReturned
         /\ commandRetries >= 1
         /\ ~(dAttempts >= 1 /\ dError = Nil) )
       => /\ dAttempts = commandRetries
          /\ dError = ShellError(commandRetries)
          /\ deployResult = ShellError(commandRetries)

\* C1's case: a command has failed twice or more, as often as the budget
\* allows, with the stop flag unset, and its last error went to log.Fatal.
C1_Witness ==
    /\ cmdPc = "fatal"
    /\ ~stop
    /\ commandRetries >= 2
    /\ attempts = commandRetries
    /\ outcome[cmdIndex + 1].error = ShellError(commandRetries)

\* The stop flag became true while runCommand was in its retry loop for the
\* command it has just returned for, and no attempt of it succeeded.
StoppedMidRetry ==
    /\ mode = "run"
    /\ stop
    /\ stopAt.index > 0
    /\ JustReturned
    /\ ReturnedCommand = stopAt.index
    /\ ~(attempts >= 1 /\ error = Nil)

\* C2 as stated: when the stop flag becomes true while runCommand is retrying
\* an always-failing command (fewer than N attempts begun so far), the loop
\* is left with fewer than N attempts made, and at most one attempt is begun
\* or in flight after the flip.
C2_Original ==
    (StoppedMidRetry /\ stopAt.attempts < commandRetries)
        => (attempts < commandRetries /\ afterStop <= 1)

\* C2, amended: at most one attempt is in flight or begun after the stop flag
\* became true, and when the flag flips while runCommand is retrying an
\* always-failing command, no further iteration is entered: the loop is left
\* with exactly the attempts of the iterations entered before the flip, that
\* is with fewer than N unless the N-th iteration had passed its stop check.
C2_StopEndsRetries ==
    /\ mode = "run" => afterStop <= 1
    /\ StoppedMidRetry =>
        /\ attempts = stopAt.entered
        /\ attempts <= commandRetries
        /\ (stopAt.entered < commandRetries => attempts < commandRetries)

\* C2's case: the flag flipped during the first of at least two allowed
\* attempts; the attempt failed and the loop was left without a second one.
C2_Witness ==
    /\ StoppedMidRetry
    /\ cmdPc = "fatal"
    /\ afterStop = 1
    /\ attempts = 1
    /\ commandRetries >= 2

\* C3: once a termination signal has been received, Stop is called on every
\* server that was started, whatever the command goroutine does: when the
\* process has ended (Run returned or the process exited), every started
\* server has been stopped.
C3_ShutdownCompletes ==
    (mode = "run" /\ signal /\ (exited \/ mainPc = "returned"))
        => stopCalls = startCalls

\* C4: if the extraction of an embedded file fails, Run returns an error and
\* no Start has been called.
C4_ExtractionFailureAborts ==
    (mode = "run" /\ extractError /\ mainPc # "extract")
        => /\ mainPc = "returned"
           /\ runResult # Nil
           /\ startCalls = <<>>

\* C5: if a server's Start fails, Run has returned that error, no later
\* server's Start is called, and the command goroutine is never launched: no
\* template is rendered and no command attempted.
C5_StartFailureAborts ==
    (mode = "run" /\ startFailed)
        => /\ mainPc = "returned"
           /\ runResult = StartError(Len(startCalls))
           /\ cmdPc = "idle"
           /\ rendered = {}
           /\ shelled = {}

\* C5's case: the first of several servers failed to start, and there are
\* commands that would have run.
C5_Witness ==
    /\ startFailed
    /\ Len(startCalls) = 1
    /\ Len(servers) >= 2
    /\ \E c \in 1..Len(commands) : commands[c].match /\ commands[c].os

\* C6: if a server's Start fails, the deferred shutdown runs before Run
\* returns the error: the servers started before it are stopped and the
\* process-tree killer is called.
C6_StartFailureStillShutsDown ==
    (mode = "run" /\ startFailed /\ mainPc = "returned")
        => /\ stopCalls = SubSeq(startCalls, 1, Len(startCalls) - 1)
           /\ killCalls = 1

\* C7: no command is attempted (and none rendered) before every server of
\* the list has been started without error.
C7_CommandsAfterAllStarts ==
    (mode = "run" /\ (shelled # {} \/ rendered # {}))
        => /\ startCalls = servers
           /\ ~startFailed

\* C7's case: a command is being attempted, the list holding two servers or
\* more, all started.
C7_Witness ==
    /\ cmdPc = "running"
    /\ Len(servers) >= 2
    /\ startCalls = servers

\* C8: commands are attempted in declaration order and one at a time: when a
\* command has been attempted, every earlier command has been skipped or has
\* returned without error, and an attempt in flight belongs to the one
\* command the loop is at, all earlier ones being finally processed.
C8_CommandsInOrder ==
    mode = "run" =>
        /\ \A j \in shelled : \A i \in 1..(j - 1) :
            outcome[i] \in {Skipped, Returned(Nil)}
        /\ cmdPc = "running" =>
            /\ cmdIndex + 1 \in shelled
            /\ \A j \in shelled : j <= cmdIndex + 1
            /\ \A i \in 1..cmdIndex : outcome[i] # Pending
            /\ outcome[cmdIndex + 1] = Pending

\* C8's case: the second command is being attempted after the first was
\* attempted and succeeded.
C8_Witness ==
    /\ cmdPc = "running"
    /\ cmdIndex = 1
    /\ shelled = {1, 2}
    /\ outcome[1] = Returned(Nil)

\* C9: a command whose labels do not match the node's, or whose OS set
\* excludes the host's, is skipped: its template is never rendered and the
\* shell never invoked for it.
C9_SkippedNeverRun ==
    mode = "run" =>
        \A c \in 1..Len(commands) :
            (~commands[c].match \/ ~commands[c].os)
                => /\ c \notin rendered
                   /\ c \notin shelled
                   /\ outcome[c] \in {Pending, Skipped}

\* C9's case: a command with matching labels and the wrong OS was skipped,
\* and the command after it was attempted.
C9_Witness ==
    /\ Len(commands) >= 2
    /\ commands[1].match /\ ~commands[1].os
    /\ outcome[1] = Skipped
    /\ 2 \in shelled

\* C10: when a command has failed after its retry budget, the process is
\* ended by log.Fatal and no later command is rendered or attempted.
C10_FailureIsFatal ==
    mode = "run" =>
        \A c \in 1..Len(commands) :
            (outcome[c].state = "returned" /\ outcome[c].error # Nil)
                => /\ exited
                   /\ cmdPc = "fatal"
                   /\ cmdIndex + 1 = c
                   /\ \A j \in (c + 1)..Len(commands) :
                        /\ outcome[j] = Pending
                        /\ j \notin rendered
                        /\ j \notin shelled

\* C10's case: the first of two runnable commands used up its budget, with
\* the stop flag unset.
C10_Witness ==
    /\ exited
    /\ ~stop
    /\ cmdIndex = 0
    /\ Len(commands) >= 2
    /\ commands[2].match /\ commands[2].os
    /\ commandRetries >= 1
    /\ attempts = commandRetries
    /\ outcome[1].error = ShellError(commandRetries)

\* C11: on a termination signal the stop flag is set first, and only then
\* are the servers stopped, in the order in which they were started (the
\* order of the list, not its reverse): whenever the deferred function runs
\* or a Stop has been called, the signal has arrived and the flag is true,
\* and the k-th Stop went to the server of the k-th Start.
C11_StopFlagThenStopsInStartOrder ==
    /\ (mainPc = "deferred" \/ stopCalls # <<>>) => (signal /\ stop)
    /\ Len(stopCalls) <= Len(startCalls)
    /\ \A k \in 1..Len(stopCalls) :
        /\ stopCalls[k] = startCalls[k]
        /\ stopCalls[k] = servers[k]

\* C11 witness: three servers were started and the first two of them have
\* been stopped, in that order.
C11_Witness ==
    /\ signal
    /\ Len(startCalls) = 3
    /\ Len(stopCalls) = 2
    /\ stopCalls[1] # stopCalls[2]
    /\ stopCalls = SubSeq(startCalls, 1, 2)

\* C12: during shutdown KillProcessChildren is called exactly once, and only
\* after Stop has been called for every server of the list: never twice,
\* never with a server of the list not yet stopped, and once the shutdown
\* that the signal began has returned it has been called.
C12_KillOnceAfterAllStops ==
    /\ killCalls <= 1
    /\ killCalls = 1 =>
        /\ signal
        /\ Len(stopCalls) = Len(servers)
        /\ \A k \in 1..Len(servers) :
            \E j \in 1..Len(stopCalls) : stopCalls[j] = servers[k]
    /\ (signal /\ mainPc = "returned") => killCalls = 1

\* C12 witness: the killer has run behind the stops of three servers.
C12_Witness ==
    /\ killCalls = 1
    /\ Len(servers) = 3
    /\ Len(stopCalls) = 3

\* C15: Run blocks until a termination signal: without a startup error it
\* returns (nil) only after SIGINT or SIGTERM was received, and the
\* completion of all commands neither makes Run return nor stops a server.
\* Run has returned nil only if the signal arrived; while it has not,
\* nothing is stopped or killed and the flag is false; and with the command
\* goroutine finished and no signal, Run is still waiting.
C15_RunBlocksUntilSignal ==
    /\ (mainPc = "returned" /\ runResult = Nil) => signal
    /\ ~signal => (stopCalls = <<>> /\ killCalls = 0 /\ ~stop)
    /\ (cmdPc = "finished" /\ ~signal) => mainPc = "wait"

\* C15 witness: every command has been processed, one of them by the shell,
\* and Run still waits with its server running.
C15_Witness ==
    /\ cmdPc = "finished"
    /\ Len(commands) >= 1
    /\ shelled # {}
    /\ servers # <<>>
    /\ startCalls = servers
    /\ mainPc = "wait"
    /\ ~signal

\* C16: the stop flag is one-way: it is false when the supervisor is
\* constructed, and no step takes it from true back to false.
C16_StopIsOneWay == ~stop /\ [][stop => stop']_vars

\* C16 witness: the flag is true, Run has returned behind the deferred
\* function, and the command goroutine has since run to its end.
C16_Witness ==
    /\ stop
    /\ mainPc = "returned"
    /\ killCalls = 1
    /\ cmdPc = "finished"
    /\ stopAt.index > 0

\* The recorded ServerConfig i is enabled and its labels match the node's.
Eligible(i) ==
    /\ buildConfig.serverConfigs[i].enabled
    /\ buildConfig.serverConfigs[i].match

\* How often a server occurs in a list of servers.
Count(list, server) == Cardinality({k \in 1..Len(list) : list[k] = server})

\* Run has built the whole list: no NewServerWrapper failed.
BuildDone ==
    \/ mainPc \in {"start", "wait"}
    \/ mainPc = "returned" /\ runResult.kind = "start"

\* C13: the servers started by Run are exactly the ServerConfigs that are
\* enabled and whose labels match the node's (plus the VIP managers): a
\* wrapped server in the list or among the started ones always stems from
\* an enabled matching ServerConfig, a disabled or non-matching one is never
\* listed or started, the built list holds every enabled matching one
\* exactly once, and when the Start loop has gone through each of them has
\* been started exactly once.
C13_StartedAreEnabledMatching ==
    /\ \A k \in 1..Len(servers) :
        servers[k].kind = "wrapper" =>
            /\ servers[k].index \in 1..Len(buildConfig.serverConfigs)
            /\ Eligible(servers[k].index)
    /\ \A i \in 1..Len(buildConfig.serverConfigs) :
        /\ ~Eligible(i) =>
            /\ Count(servers, ServerWrapper(i)) = 0
            /\ Count(startCalls, ServerWrapper(i)) = 0
        /\ (Eligible(i) /\ BuildDone) => Count(servers, ServerWrapper(i)) = 1
        /\ (Eligible(i) /\ mainPc = "wait") =>
            Count(startCalls, ServerWrapper(i)) = 1
    /\ \A k \in 1..Len(startCalls) : Count(servers, startCalls[k]) = 1

\* C13 witness: of two ServerConfigs the first is enabled but does not match
\* and the second is enabled and matches; the Start loop is through and the
\* server of the second was the first one started.
C13_Witness ==
    /\ Len(buildConfig.serverConfigs) = 2
    /\ buildConfig.serverConfigs[1].enabled
    /\ ~buildConfig.serverConfigs[1].match
    /\ Eligible(2)
    /\ mainPc = "wait"
    /\ startCalls # <<>>
    /\ startCalls[1] = ServerWrapper(2)

\* Server a has its place in front of server b: a wrapped server of an
\* earlier ServerConfig, a wrapped server in front of a VIP manager, the
\* controller's VIP manager in front of the worker's.
Before(a, b) ==
    \/ a.kind = "wrapper" /\ b.kind = "wrapper" /\ a.index < b.index
    \/ a.kind = "wrapper" /\ b.kind = "vip"
    \/ a.kind = "vip" /\ b.kind = "vip"
        /\ a.role = "controller" /\ b.role = "worker"

\* C14: servers are started strictly in the order in which they were
\* appended: the k-th Start goes to the k-th server of the list, the list
\* holds the wrapped servers in ServerConfig declaration order, then the
\* controller VIP manager, then the worker VIP manager, and a Start that
\* returned an error is the last call: Run has returned that error.
C14_StartsInAppendOrder ==
    /\ Len(startCalls) <= Len(servers)
    /\ \A k \in 1..Len(startCalls) : startCalls[k] = servers[k]
    /\ \A i \in 1..Len(servers) : \A j \in 1..Len(servers) :
        i < j => Before(servers[i], servers[j])
    /\ startFailed =>
        /\ mainPc = "returned"
        /\ runResult = StartError(Len(startCalls))

\* C14 witness: two wrapped servers and both VIP managers have been
\* started, in that order.
C14_Witness ==
    /\ Len(startCalls) = 4
    /\ ~startFailed
    /\ startCalls[1] = ServerWrapper(1)
    /\ startCalls[2] = ServerWrapper(2)
    /\ startCalls[3].kind = "vip" /\ startCalls[3].role = "controller"
    /\ startCalls[4].kind = "vip" /\ startCalls[4].role = "worker"

\* C17: within one run a server is added to the supervisor's list at most
\* once: each ServerConfig contributes at most one entry, each VIP role at
\* most one, and no two entries of the list are the same server.
C17_AddedAtMostOnce ==
    /\ \A i \in 1..Len(servers) : \A j \in 1..Len(servers) :
        i # j => servers[i] # servers[j]
    /\ \A c \in 1..Len(buildConfig.serverConfigs) :
        Cardinality({k \in 1..Len(servers) :
            servers[k].kind = "wrapper" /\ servers[k].index = c}) <= 1
    /\ \A role \in {"controller", "worker"} :
        Cardinality({k \in 1..Len(servers) :
            servers[k].kind = "vip" /\ servers[k].role = role}) <= 1

\* C17 witness: the list holds a server for each of two ServerConfigs and
\* the VIP managers of both roles.
C17_Witness ==
    /\ mainPc = "start"
    /\ Len(servers) = 4
    /\ Len(buildConfig.serverConfigs) = 2
    /\ {servers[k].role : k \in 3..4} = {"controller", "worker"}

\* C18: Steps() is the number of configured servers (config.Config.Servers,
\* enabled or not, matching or not) plus the number of configured commands
\* plus one, for any configuration and at any point of the run.
C18_StepsIsServersPlusCommandsPlusOne ==
    Steps = Cardinality(DOMAIN buildConfig.serverConfigs)
                + Cardinality(DOMAIN commands) + 1

\* C18 witness: two servers and two commands are configured, Steps() is 5,
\* and the list that Run built holds another number of servers.
C18_Witness ==
    /\ Len(buildConfig.serverConfigs) = 2
    /\ Len(commands) = 2
    /\ Steps = 5
    /\ BuildDone
    /\ Len(servers) # 2

\* The virtual IP and the interface configured for a role.
VirtualIP(role) ==
    IF role = NODE_CONTROLLER THEN buildConfig.controllerVirtualIP
    ELSE buildConfig.workerVirtualIP
VirtualIPInterface(role) ==
    IF role = NODE_CONTROLLER THEN buildConfig.controllerVirtualIPInterface
    ELSE buildConfig.workerVirtualIPInterface

C20_VirtualIPBoundOnAtMostOneNode ==
    /\ Cardinality({n \in members : vipBound[n]}) <= 1
    /\ \A n \in members :
        vipBound[n] => (holder = n /\ vipState[n] = "Leader")

\* C20 witness: two managers campaign in the controllers' election; node1
\* was the leader and lost its session, node2 has won the election since and
\* has the virtual IP bound, and node1 is back in the election as Candidate.
C20_Witness ==
    /\ election = <<ELECTION_NAMESPACE, ELECTION_CONTROLLER>>
    /\ members = {"node1", "node2"}
    /\ formerLeader = "node1"
    /\ holder = "node2"
    /\ vipBound["node2"]
    /\ ~vipBound["node1"]
    /\ connected["node1"]
    /\ vipState["node1"] = "Candidate"

\* Peer a was the leader and is without its session, and peer b is running
\* and reaches the consensus backend.
Expired(a, b) ==
    /\ members = {a, b}
    /\ formerLeader = a
    /\ ~connected[a]
    /\ vipLife[b] = "running" /\ connected[b]

\* Peer b is the leader with the virtual IP bound, and peer a has it not.
TakenOver(a, b) ==
    /\ members = {a, b}
    /\ holder = b
    /\ vipState[b] = "Leader"
    /\ vipBound[b]
    /\ ~vipBound[a]

\* Peer a has its session back, or peer b has been stopped or has lost its
\* own session.
Disturbed(a, b) ==
    /\ members = {a, b}
    /\ \/ connected[a]
       \/ vipLife[b] # "running"
       \/ ~connected[b]

C22_PartitionedNodeGivesUpVirtualIP ==
    \A n \in members :
        /\ ~connected[n] =>
            /\ vipState[n] = "Follower"
            /\ holder # n
            /\ ~vipBound[n]
        /\ vipState[n] # "Leader" => ~vipBound[n]

\* C22 witness: the only manager of the workers' election was the leader
\* and has just lost its session; it is running, a Follower, and the
\* election has no leader.
C22_Witness ==
    /\ election = <<ELECTION_NAMESPACE, ELECTION_WORKER>>
    /\ members = {"node1"}
    /\ formerLeader = "node1"
    /\ vipLife["node1"] = "running"
    /\ ~connected["node1"]
    /\ vipState["node1"] = "Follower"
    /\ holder = NoLeader

C24_FirstSuccessEndsRetries ==
    /\ ( /\ mode = "run"
         /\ JustReturned
         /\ attempts >= 1
         /\ error = Nil )
       => /\ attempts = retries + 1
          /\ attempts <= commandRetries
          /\ cmdPc = "next"
          /\ outcome[ReturnedCommand] = Returned(Nil)
    /\ ( /\ mode = "run"
         /\ cmdPc \in {"loop", "call", "sleep"} )
       => error # Nil \/ attempts = 0
    /\ ( /\ mode = "deploy"
         /\ DeployJustReturned
         /\ dAttempts >= 1
         /\ dError = Nil )
       => /\ dAttempts = dRetries + 1
          /\ dAttempts <= commandRetries
          /\ deployPc = "commands"
          /\ dOutcome[dIndex] = Returned(Nil)
    /\ ( /\ mode = "deploy"
         /\ deployPc \in {"loop", "sleep"} )
       => dError # Nil \/ dAttempts = 0

\* C24 witness: the first attempt of a command failed, the second one
\* succeeded, and runCommand has returned nil with the stop flag unset.
C24_Witness ==
    /\ mode = "run"
    /\ JustReturned
    /\ ~stop
    /\ attempts = 2
    /\ retries = 1
    /\ error = Nil
    /\ outcome[cmdIndex] = Returned(Nil)

\* C25: with a retry budget of 0 runCommand never calls the shell and
\* reports success, so that every matching command is counted as processed
\* without having been executed; the same holds for Deployment.runCommand.
C25_ZeroBudgetSucceedsWithoutShell ==
    /\ (mode = "run" /\ commandRetries = 0) =>
        /\ shelled = {}
        /\ attempts = 0
        /\ cmdPc \notin {"call", "running", "sleep"}
        /\ \A c \in 1..Len(commands) :
            /\ outcome[c] \in {Pending, Skipped, Returned(Nil),
                               Returned(TemplateError)}
            /\ (c \in rendered /\ outcome[c].state = "returned"
                    /\ outcome[c].error # TemplateError)
                => (outcome[c] = Returned(Nil) /\ c <= cmdIndex)
        /\ cmdPc \in {"next", "finished"} =>
            progress = Len(startCalls) + cmdIndex
    /\ (mode = "deploy" /\ commandRetries = 0) =>
        /\ dAttempts = 0
        /\ deployPc \notin {"running", "sleep"}
        /\ \A c \in 1..Len(bootCommands) :
            dOutcome[c] \in {Pending, Skipped, Returned(Nil)}

\* C25 witness: the budget is 0; both commands matched, were rendered and
\* are counted as processed, and the shell was never called.
C25_Witness ==
    /\ mode = "run"
    /\ commandRetries = 0
    /\ cmdPc = "finished"
    /\ Len(commands) = 2
    /\ rendered = {1, 2}
    /\ shelled = {}
    /\ outcome = [c \in 1..2 |-> Returned(Nil)]
    /\ progress = Len(startCalls) + 2

\* The commands the loop of the goroutine had not yet taken when the stop
\* flag became true.
Remaining == IF stop THEN stopAt.next..Len(commands) ELSE {}

\* C26: when the stop flag is already true at the first iteration of
\* runCommand for a command, the command is not attempted and runCommand
\* returns success; hence behind the flip no remaining command reaches the
\* shell or a fatal error, whereas a command interrupted behind a failed
\* attempt returns the error of that attempt.
C26_RemainingCommandsPassedOver ==
    mode = "run" =>
        /\ \A c \in Remaining :
            /\ c \notin shelled
            /\ outcome[c] \in {Pending, Skipped, Returned(Nil)}
        /\ (cmdPc = "fatal") => (cmdIndex + 1 \notin Remaining)
        /\ (StoppedMidRetry /\ attempts >= 1) =>
            /\ error = ShellError(attempts)
            /\ outcome[ReturnedCommand] = Returned(error)

\* C26 without the commands whose template fails to render: a remaining
\* command whose template was applied is not attempted and returns success,
\* and an interrupted command returns the error of its last attempt.
C26_RenderedRemainingCommandsPassedOver ==
    mode = "run" =>
        /\ \A c \in Remaining :
            /\ c \notin shelled
            /\ outcome[c] \in {Pending, Skipped, Returned(Nil),
                               Returned(TemplateError)}
            /\ (outcome[c] = Returned(Nil)) => c \in rendered
        /\ (cmdPc \in {"call", "running", "sleep"})
            => (cmdIndex + 1 \notin Remaining)
        /\ (cmdPc = "fatal" /\ cmdIndex + 1 \in Remaining)
            => error = TemplateError
        /\ (StoppedMidRetry /\ attempts >= 1) =>
            /\ error = ShellError(attempts)
            /\ outcome[ReturnedCommand] = Returned(error)

\* The case of C26 that holds: the flag flipped before the first command was
\* taken; both commands were rendered, passed over without the shell and
\* counted.
C26_PassedOver ==
    /\ mode = "run"
    /\ stop
    /\ stopAt.next = 1
    /\ commandRetries >= 1
    /\ Len(commands) = 2
    /\ outcome = [c \in 1..2 |-> Returned(Nil)]
    /\ shelled = {}

\* The case of C26 that fails: the flag flipped before a command whose
\* template does not render, and the process ended in log.Fatal.
C26_FatalBehindStop ==
    /\ mode = "run"
    /\ stop
    /\ cmdPc = "fatal"
    /\ cmdIndex + 1 \in Remaining
    /\ error = TemplateError

\* The calls of Start that returned without an error.
SuccessfulStarts == Len(startCalls) - (IF startFailed THEN 1 ELSE 0)

\* C27: in any run of Servers.Run the progress is incremented exactly once
\* for every server started without an error and once for every command
\* processed (passed over or run with success), and the number of increments
\* never exceeds Servers.Steps().
C27_ProgressWithinSteps ==
    mode = "run" =>
        /\ progress = SuccessfulStarts + cmdIndex
        /\ progress <= Steps

\* The part of C27 on the increments alone, which holds.
C27_OneIncrementPerStartAndCommand ==
    mode = "run" => progress = SuccessfulStarts + cmdIndex

\* The case of C27 that fails: the node is a controller and a worker with
\* both virtual IPs configured, no server and no command is configured, and
\* both VIP managers were started: two increments with Steps() = 1.
C27_MoreIncrementsThanSteps ==
    /\ mode = "run"
    /\ buildConfig.serverConfigs = <<>>
    /\ commands = <<>>
    /\ Len(startCalls) = 2
    /\ ~startFailed
    /\ progress = 2
    /\ Steps = 1

\* The steps of a phase that goes over n nodes, in the order of the sorted
\* node keys.
PhaseSteps(phase, n) == [k \in 1..n |-> Step(phase, k)]

\* The commands that runBoostrapperCommands does not pass over, in the order
\* of config.Config.Commands.
CommandSteps ==
    LET positions == [c \in 1..Len(bootCommands) |-> c]
        run == SelectSeq(positions,
                         LAMBDA c : ~BootCommandSkipped(bootCommands[c]))
    IN  [k \in 1..Len(run) |-> Step("command", run[k])]

\* What a Deploy without an error goes through.
FullDeploy ==
    PhaseSteps("upload", nodes)
        \o (IF skipSetup THEN <<>>
            ELSE PhaseSteps("taint", nodes)
                    \o (IF pullImages THEN PhaseSteps("pull", nodes)
                        ELSE <<>>)
                    \o CommandSteps)

IsPrefix(s, t) == Len(s) <= Len(t) /\ s = SubSeq(t, 1, Len(s))

\* The phase an error of Deploy stems from.
PhaseOf(e) ==
    CASE e.kind = "upload" -> "upload"
      [] e.kind = "taint" -> "taint"
      [] e.kind = "pull" -> "pull"
      [] OTHER -> "command"

\* C28: Deploy uploads the files node by node in the order of the sorted
\* node keys and runs setup only when every upload succeeded; setup goes
\* through the taints, the image pulls and the bootstrapper commands in this
\* order, and the first upload or phase that returns an error ends Deploy
\* with that error, so that nothing later runs.
C28_DeployPhasesInOrder ==
    mode = "deploy" =>
        /\ IsPrefix(deployLog, FullDeploy)
        /\ deployPc # "returned" => deployResult = Nil
        /\ (deployPc \notin {"upload", "returned"}) =>
            /\ ~skipSetup
            /\ Len(deployLog) >= nodes
        /\ (deployPc = "returned" /\ deployResult = Nil) =>
            deployLog = FullDeploy
        /\ (deployPc = "returned" /\ deployResult # Nil) =>
            /\ deployLog # <<>>
            /\ deployLog[Len(deployLog)].phase = PhaseOf(deployResult)
            /\ deployResult.kind # "upload" => Len(deployLog) > nodes

\* C28 witness: two nodes with pullImages set; both uploads and both taints
\* succeeded, the pull of the first node too, the pull of the second node
\* failed and Deploy returned its error before any command was run.
C28_Witness ==
    /\ mode = "deploy"
    /\ nodes = 2
    /\ pullImages
    /\ Len(bootCommands) >= 1
    /\ ~BootCommandSkipped(bootCommands[1])
    /\ deployPc = "returned"
    /\ deployResult = PullError
    /\ deployLog = PhaseSteps("upload", 2) \o PhaseSteps("taint", 2)
                        \o PhaseSteps("pull", 2)

\* C29: when a Deploy with setup enabled has returned without an error, the
\* progress increments of the setup phases (taints, image pulls,
\* bootstrapper commands) are as many as the setup part of
\* Deployment.Steps(): nodes + (nodes x images when pullImages) + nodes x
\* commands, for any number of nodes.
C29_SetupIncrementsEqualSteps ==
    ( /\ mode = "deploy"
      /\ deployPc = "returned"
      /\ deployResult = Nil
      /\ ~skipSetup )
    => progress = SetupSteps

\* What the setup phases count: one step for each node's taint, one for each
\* image pulled on each node, and one for each command.
C29_SetupIncrementsCountCommandsOnce ==
    ( /\ mode = "deploy"
      /\ deployPc = "returned"
      /\ deployResult = Nil
      /\ ~skipSetup )
    => progress = nodes + (IF pullImages THEN nodes * NumImages ELSE 0)
                        + Len(bootCommands)

\* The case of C29 that fails: two nodes, one command, no image pulls; the
\* setup went through with three increments while Steps() counts four.
C29_FewerIncrementsThanSteps ==
    /\ mode = "deploy"
    /\ deployPc = "returned"
    /\ deployResult = Nil
    /\ ~skipSetup
    /\ ~pullImages
    /\ nodes = 2
    /\ Len(bootCommands) = 1
    /\ progress = 3
    /\ SetupSteps = 4

====
